---- MODULE Spec2Model ----
\* A model of bot.py: a Telegram bot that relays photo messages to a CUPS
\* label printer.  Text is modelled as sequences of one-character strings so
\* that splitting, digit tests, lower-casing and regular-expression matching
\* are computed, not assumed.
EXTENDS Integers, Sequences, FiniteSets, TLC

VARIABLES
    env,               \* os.environ["ALLOWED_USER_IDS"]: [set, text]
    ALLOWED_USER_IDS,  \* the list loaded at import time (lines 25-26)
    CUPS_PRINTER_NAME, \* [set, text] as read by os.getenv (line 23)
    handler,           \* which callback the dispatcher invoked for the update
    msg,               \* the update being handled
    pc,                \* position of the running callback
    outcome,           \* how the callback ended
    replies,           \* replies sent by the current run, in order
    effects,           \* stages the current run went through, in order
    copies,            \* local copies of handle_image
    img_size,          \* img.size after img.thumbnail (line 43)
    resized,           \* value returned by resize_image
    temp_file,         \* name of the NamedTemporaryFile of the current call
    fs,                \* names of the temporary files that exist on disk
    lp,                \* what became of the lp subprocess
    result             \* value returned by print_image_cups

vars == << env, ALLOWED_USER_IDS, CUPS_PRINTER_NAME, handler, msg, pc, outcome,
           replies, effects, copies, img_size, resized, temp_file, fs, lp, result >>

-----------------------------------------------------------------------------
\* Bounds of the model.

\* longest ALLOWED_USER_IDS value enumerated
MaxEnvLen == 3
\* most fragments a caption is built from
MaxFrags == 4
\* number of multiples of DimStride among the source image dimensions
MaxDimK == 8
\* number of names the temporary directory can hold
MaxTempNames == 2

-----------------------------------------------------------------------------
\* Text helpers.

Digits == <<"0", "1", "2", "3", "4", "5", "6", "7", "8", "9">>
UpperCase == <<"A", "B", "C", "D", "E", "F", "G", "H", "I", "J", "K", "L", "M",
               "N", "O", "P", "Q", "R", "S", "T", "U", "V", "W", "X", "Y", "Z">>
LowerCase == <<"a", "b", "c", "d", "e", "f", "g", "h", "i", "j", "k", "l", "m",
               "n", "o", "p", "q", "r", "s", "t", "u", "v", "w", "x", "y", "z">>

Range(s) == { s[i] : i \in DOMAIN s }

IsDigit(c) == c \in Range(Digits)
IsSpace(c) == c \in {" ", "\t", "\n", "\r"}
IsWordChar(c) == c \in Range(Digits) \cup Range(UpperCase) \cup Range(LowerCase) \cup {"_"}

DigitVal(c) == (CHOOSE i \in DOMAIN Digits : Digits[i] = c) - 1

\* str.isdigit(): non-empty and every character a digit
isdigit(s) == Len(s) > 0 /\ \A i \in DOMAIN s : IsDigit(s[i])

\* int(s) for a string of decimal digits
RECURSIVE int(_)
int(s) ==
    IF Len(s) = 0 THEN 0
    ELSE 10 * int(SubSeq(s, 1, Len(s) - 1)) + DigitVal(s[Len(s)])

LowerChar(c) ==
    IF c \in Range(UpperCase)
    THEN LowerCase[CHOOSE i \in DOMAIN UpperCase : UpperCase[i] = c]
    ELSE c

\* str.lower()
lower(s) == [i \in DOMAIN s |-> LowerChar(s[i])]

\* str.split(','): the fields between commas, empty fields included
RECURSIVE SplitAcc(_, _, _, _)
SplitAcc(s, i, cur, acc) ==
    IF i > Len(s) THEN Append(acc, cur)
    ELSE IF s[i] = "," THEN SplitAcc(s, i + 1, <<>>, Append(acc, cur))
    ELSE SplitAcc(s, i + 1, Append(cur, s[i]), acc)

split(s) == SplitAcc(s, 1, <<>>, <<>>)

RECURSIVE Concat(_)
Concat(ss) == IF Len(ss) = 0 THEN <<>> ELSE Head(ss) \o Concat(Tail(ss))

\* sequences over S of length at most n
SeqsUpTo(S, n) == UNION { [1..k -> S] : k \in 0..n }

-----------------------------------------------------------------------------
\* Configuration (lines 22-26).

NoValue == [set |-> FALSE, text |-> <<>>]
Value(t) == [set |-> TRUE, text |-> t]

\* os.getenv(name, default)
getenv(v, default) == IF v.set THEN v.text ELSE default

\* a kept entry of the comprehension on line 26
KeepEntry(user_id) == isdigit(user_id)

RECURSIVE LoadEntries(_)
LoadEntries(fields) ==
    IF Len(fields) = 0 THEN <<>>
    ELSE IF KeepEntry(Head(fields))
         THEN <<int(Head(fields))>> \o LoadEntries(Tail(fields))
         ELSE LoadEntries(Tail(fields))

\* lines 25-26: getenv, split(','), keep the isdigit() fields, int()
LoadAllowedUserIds(v) == LoadEntries(split(getenv(v, <<>>)))

\* a variant that takes any value that is set, the empty string too, for truthy
Truthy_IsSet(v) == v.set

\* truthiness of a str-or-None setting ("if not CUPS_PRINTER_NAME")
Truthy(v) == v.set /\ Len(v.text) > 0

-----------------------------------------------------------------------------
\* Constants (lines 29-35).

LABEL_WIDTH_INCHES == 4
LABEL_HEIGHT_INCHES == 6
IMAGE_DPI == 300
LABEL_WIDTH_PX == LABEL_WIDTH_INCHES * IMAGE_DPI
LABEL_HEIGHT_PX == LABEL_HEIGHT_INCHES * IMAGE_DPI

-----------------------------------------------------------------------------
\* resize_image (lines 39-61).

Abs(n) == IF n < 0 THEN -n ELSE n
Max(a, b) == IF a >= b THEN a ELSE b

\* math.floor and math.ceil of the rational p / q, q > 0
FloorDiv(p, q) == p \div q
CeilDiv(p, q) == IF p % q = 0 THEN p \div q ELSE (p \div q) + 1

\* The candidates min(floor, ceil, key=...) can return: the one with the
\* smaller key, the floor when the keys are equal as floats; keys that are
\* equal as rationals may differ in the last bit as floats, so either may win.
\* ka and kb are the keys of a and b scaled by a common positive factor.
MinByKey(a, b, ka, kb) ==
    IF a = b THEN {a}
    ELSE IF ka < kb THEN {a}
    ELSE IF kb < ka THEN {b}
    ELSE {a, b}

\* a variant that resizes to the box itself, as Image.resize would
thumbnail_Stretch(w, h, x, y) ==
    IF x >= w /\ y >= h THEN { <<w, h>> } ELSE { <<x, y>> }

\* Image.thumbnail((x, y)) on an image of size (w, h): the sizes img.size can
\* have afterwards.  The image is left alone when it fits the box; otherwise
\* one side is the box's and the other is round_aspect of the scaled side.
thumbnail(w, h, x, y) ==
    IF x >= w /\ y >= h THEN { <<w, h>> }
    ELSE IF x * h >= w * y
    THEN LET a == FloorDiv(y * w, h)
             b == CeilDiv(y * w, h)
         IN  { <<Max(n, 1), y>> :
                 n \in MinByKey(a, b, Abs(w * y - a * h), Abs(w * y - b * h)) }
    ELSE LET a == FloorDiv(x * h, w)
             b == CeilDiv(x * h, w)
         IN  { <<x, Max(n, 1)>> :
                 n \in MinByKey(a, b,
                                IF a = 0 THEN 0 ELSE Abs(w * a - x * h) * b,
                                IF a = 0 THEN 1 ELSE Abs(w * b - x * h) * a) }

PNG == <<"P", "N", "G">>
JPEG == <<"J", "P", "E", "G">>

\* line 55: 'PNG' if img.mode == 'RGBA' or 'P' in img.mode else 'JPEG'
SelectFormat(mode) ==
    IF mode = <<"R", "G", "B", "A">> \/ "P" \in Range(mode) THEN PNG ELSE JPEG

\* img.save(buffer, format=...) raises for a mode the encoder cannot write:
\* the JPEG encoder writes 1, L, RGB and CMYK; the PNG encoder all six modes
\* with which the decoders modelled here open a file, but not CMYK.
CanSave(format, mode) ==
    IF format = JPEG
    THEN mode \in { <<"1">>, <<"L">>, <<"R", "G", "B">>, <<"C", "M", "Y", "K">> }
    ELSE mode # <<"C", "M", "Y", "K">>

NoSize == <<0, 0>>
NoBuffer == [ok |-> FALSE, size |-> NoSize, mode |-> <<>>, format |-> <<>>, tag |-> <<>>]

\* The possible results of resize_image(image_bytes): size is img.size after
\* line 43 (NoSize when Image.open raised), ret the returned (buffer, tag),
\* with ok FALSE standing for (None, None).
resize_image(image_bytes) ==
    IF ~image_bytes.decodable
    THEN { [size |-> NoSize, ret |-> NoBuffer] }
    ELSE { LET img_format == SelectFormat(image_bytes.mode)
           IN  IF CanSave(img_format, image_bytes.mode)
               THEN [size |-> sz,
                     ret |-> [ok |-> TRUE, size |-> sz, mode |-> image_bytes.mode,
                              format |-> img_format, tag |-> lower(img_format)]]
               ELSE [size |-> sz, ret |-> NoBuffer]
           : sz \in thumbnail(image_bytes.w, image_bytes.h,
                              LABEL_WIDTH_PX, LABEL_HEIGHT_PX) }

-----------------------------------------------------------------------------
\* parse_copies (lines 104-118).

NoCaption == [set |-> FALSE, text |-> <<>>]

\* index just past the longest run of digits that starts at i  (\d+)
RECURSIVE DigitsEnd(_, _)
DigitsEnd(s, i) ==
    IF i <= Len(s) /\ IsDigit(s[i]) THEN DigitsEnd(s, i + 1) ELSE i

\* index just past the longest run of whitespace that starts at i  (\s*)
RECURSIVE SpaceEnd(_, _)
SpaceEnd(s, i) ==
    IF i <= Len(s) /\ IsSpace(s[i]) THEN SpaceEnd(s, i + 1) ELSE i

\* \b before s[i]: a word character on exactly one side
WordBoundary(s, i) ==
    LET before == i > 1 /\ IsWordChar(s[i - 1])
        after == i <= Len(s) /\ IsWordChar(s[i])
    IN  before # after

HasAt(s, i, w) == i + Len(w) - 1 <= Len(s) /\ SubSeq(s, i, i + Len(w) - 1) = w

NoMatch == [found |-> FALSE, from |-> 0, to |-> 0]

\* the match of (?:x|\bcopies\s*=\s*)(\d+) that starts at i; from..to is group 1
MatchAt(s, i) ==
    IF HasAt(s, i, <<"x">>) /\ DigitsEnd(s, i + 1) > i + 1
    THEN [found |-> TRUE, from |-> i + 1, to |-> DigitsEnd(s, i + 1) - 1]
    ELSE IF WordBoundary(s, i) /\ HasAt(s, i, <<"c", "o", "p", "i", "e", "s">>)
    THEN LET j == SpaceEnd(s, i + 6)
         IN  IF HasAt(s, j, <<"=">>)
             THEN LET k == SpaceEnd(s, j + 1)
                  IN  IF DigitsEnd(s, k) > k
                      THEN [found |-> TRUE, from |-> k, to |-> DigitsEnd(s, k) - 1]
                      ELSE NoMatch
             ELSE NoMatch
    ELSE NoMatch

\* re.search: the match at the leftmost position that has one
RECURSIVE SearchFrom(_, _)
SearchFrom(s, i) ==
    IF i > Len(s) THEN NoMatch
    ELSE IF MatchAt(s, i).found THEN MatchAt(s, i)
    ELSE SearchFrom(s, i + 1)

\* a variant without the floor of one copy
AtLeastOne_NoClamp(n) == n

\* line 115: max(1, copies)
AtLeastOne(n) == Max(1, n)

parse_copies(caption) ==
    IF ~caption.set \/ Len(caption.text) = 0 THEN 1
    ELSE LET s == lower(caption.text)
             match == SearchFrom(s, 1)
         IN  IF match.found
             THEN AtLeastOne(int(SubSeq(s, match.from, match.to)))
             ELSE 1

-----------------------------------------------------------------------------
\* Inputs.

Senders == {1, 11, 5}

EnvAlphabet == {"1", ",", " ", "a"}
Envs == {NoValue} \cup { Value(t) : t \in SeqsUpTo(EnvAlphabet, MaxEnvLen) }

PrinterNames == { NoValue, Value(<<>>), Value(<<"l", "b", "l">>) }

Caption(t) == [set |-> TRUE, text |-> t]

Modes == { <<"1">>, <<"L">>, <<"L", "A">>, <<"P">>, <<"R", "G", "B">>,
           <<"R", "G", "B", "A">>, <<"C", "M", "Y", "K">> }
HasAlpha(mode) == mode \in { <<"L", "A">>, <<"R", "G", "B", "A">> }
IsPalette(mode) == mode = <<"P">>

Image(w, h, mode) == [decodable |-> TRUE, w |-> w, h |-> h, mode |-> mode]
Undecodable == [decodable |-> FALSE, w |-> 0, h |-> 0, mode |-> <<>>]

\* the updates the handlers are run on
SomeCaptions == { NoCaption, Caption(<<"X", "3">>), Caption(<<"h", "i">>) }
SomeImages == { Undecodable,
                Image(800, 600, <<"R", "G", "B">>),
                Image(2400, 1800, <<"R", "G", "B", "A">>),
                Image(100, 100, <<"L", "A">>) }

Commands == { [sender |-> u, photo |-> FALSE, caption |-> NoCaption, image |-> Undecodable] :
              u \in Senders }
Photos == { [sender |-> u, photo |-> TRUE, caption |-> c, image |-> i] :
            u \in Senders, c \in SomeCaptions, i \in SomeImages }

\* what the lp subprocess can leave behind, and the errors the system can raise
ExitCodes == {0, 1}
Stdouts == {"", "request id is lbl-7 (1 file(s))"}
Stderrs == {"", "lp: The printer or class does not exist."}
LaunchErrors == {"[Errno 2] No such file or directory: 'lp'"}
WriteErrors == {"[Errno 28] No space left on device"}
CreateErrors == {"[Errno 13] Permission denied: '/tmp/tmpq1'"}

TempNames == 1..MaxTempNames

NoProcess == [status |-> "none", d |-> <<>>, n |-> 0, file |-> 0, code |-> 0,
              stdout |-> "", stderr |-> "", error |-> ""]
NoResult == [returned |-> FALSE, success |-> FALSE, message |-> ""]
Return(success, message) == [returned |-> TRUE, success |-> success, message |-> message]

Reply(kind, arg) == [kind |-> kind, arg |-> arg]

-----------------------------------------------------------------------------
\* State after the module has been imported and before any update arrives.

InitRun ==
    /\ handler = "none"
    /\ msg = [sender |-> 0, photo |-> FALSE, caption |-> NoCaption, image |-> Undecodable]
    /\ pc = "idle"
    /\ outcome = "none"
    /\ replies = <<>>
    /\ effects = <<>>
    /\ copies = 0
    /\ img_size = NoSize
    /\ resized = NoBuffer
    /\ temp_file = 0
    /\ fs = {}
    /\ lp = NoProcess
    /\ result = NoResult

Init ==
    /\ env \in Envs
    /\ ALLOWED_USER_IDS = LoadAllowedUserIds(env)
    /\ CUPS_PRINTER_NAME \in PrinterNames
    /\ InitRun

config == << env, ALLOWED_USER_IDS, CUPS_PRINTER_NAME >>

-----------------------------------------------------------------------------
\* The dispatcher hands the next update to a handler (lines 206-209); updates
\* are processed one at a time.

Deliver(h, m) ==
    /\ pc \in {"idle", "done"}
    /\ handler' = h
    /\ msg' = m
    /\ pc' = "received"
    /\ outcome' = "none"
    /\ replies' = <<>>
    /\ effects' = <<>>
    /\ copies' = 0
    /\ img_size' = NoSize
    /\ resized' = NoBuffer
    /\ temp_file' = 0
    /\ lp' = NoProcess
    /\ result' = NoResult
    /\ UNCHANGED << config, fs >>

ReceiveCommand == \E m \in Commands : Deliver("start", m)

ReceivePhoto == \E m \in Photos \cup Commands : Deliver("handle_image", m)

\* the handler is entered: user = update.effective_user (lines 124, 136)
Invoke ==
    /\ pc = "received"
    /\ pc' = "authorizing"
    /\ UNCHANGED << config, handler, msg, outcome, replies, effects, copies, img_size,
                    resized, temp_file, fs, lp, result >>

\* a variant that drops the test for an empty allow-list
Unauthorized_NoEmptyTest(user_id) == user_id \notin Range(ALLOWED_USER_IDS)

\* lines 125 and 137: ALLOWED_USER_IDS and user.id not in ALLOWED_USER_IDS
Unauthorized(user_id) ==
    ALLOWED_USER_IDS # <<>> /\ user_id \notin Range(ALLOWED_USER_IDS)

\* a variant that ends the run without sending the reply
Finish_NoReply(o, reply) ==
    /\ pc' = "done"
    /\ outcome' = o
    /\ replies' = replies

Finish(o, reply) ==
    /\ pc' = "done"
    /\ outcome' = o
    /\ replies' = Append(replies, reply)

\* start (lines 122-132)
start ==
    /\ pc = "authorizing"
    /\ handler = "start"
    /\ effects' = effects \o <<"authorize", "reply">>
    /\ IF Unauthorized(msg.sender)
       THEN Finish("denied", Reply("unauthorized", ""))
       ELSE Finish("welcomed", Reply("welcome", ""))
    /\ UNCHANGED << config, handler, msg, copies, img_size, resized, temp_file, fs,
                    lp, result >>

\* handle_image, lines 136-140
Authorize ==
    /\ pc = "authorizing"
    /\ handler = "handle_image"
    /\ IF Unauthorized(msg.sender)
       THEN /\ effects' = effects \o <<"authorize", "reply">>
            /\ Finish("denied", Reply("unauthorized", ""))
       ELSE /\ effects' = Append(effects, "authorize")
            /\ pc' = "validating"
            /\ UNCHANGED << outcome, replies >>
    /\ UNCHANGED << config, handler, msg, copies, img_size, resized, temp_file, fs,
                    lp, result >>

\* handle_image, lines 142-149
Validate ==
    /\ pc = "validating"
    /\ IF ~msg.photo
       THEN /\ effects' = Append(effects, "reply")
            /\ Finish("rejected", Reply("send_image", ""))
       ELSE IF ~Truthy(CUPS_PRINTER_NAME)
       THEN /\ effects' = Append(effects, "reply")
            /\ Finish("rejected", Reply("not_configured", ""))
       ELSE /\ pc' = "download"
            /\ UNCHANGED << outcome, replies, effects >>
    /\ UNCHANGED << config, handler, msg, copies, img_size, resized, temp_file, fs,
                    lp, result >>

\* handle_image, lines 152-153: get_file and download_as_bytearray are requests
\* to the Bot API; an exception they raise leaves the handler
Download ==
    /\ pc = "download"
    /\ effects' = Append(effects, "download")
    /\ \/ /\ pc' = "ack"
          /\ UNCHANGED outcome
       \/ /\ pc' = "done"
          /\ outcome' = "raised"
    /\ UNCHANGED << config, handler, msg, replies, copies, img_size, resized,
                    temp_file, fs, lp, result >>

\* handle_image, lines 156-159
Ack ==
    /\ pc = "ack"
    /\ copies' = parse_copies(msg.caption)
    /\ effects' = effects \o <<"parse_copies", "reply">>
    /\ replies' = Append(replies, Reply("received", copies'))
    /\ pc' = "resize"
    /\ UNCHANGED << config, handler, msg, outcome, img_size, resized, temp_file, fs,
                    lp, result >>

\* handle_image, lines 162-166
Resize ==
    /\ pc = "resize"
    /\ \E r \in resize_image(msg.image) :
          /\ img_size' = r.size
          /\ resized' = r.ret
          /\ IF ~r.ret.ok
             THEN /\ effects' = effects \o <<"resize_image", "reply">>
                  /\ Finish("normalize-failed", Reply("process_failed", ""))
             ELSE /\ effects' = Append(effects, "resize_image")
                  /\ pc' = "print"
                  /\ UNCHANGED << outcome, replies >>
    /\ UNCHANGED << config, handler, msg, copies, temp_file, fs, lp, result >>

-----------------------------------------------------------------------------
\* print_image_cups (lines 63-102), called on line 169.

\* a variant that leaves the file on disk (delete=False)
ExitWith_Keep(files, name) == files

\* leaving the with block of line 83 closes the file, and delete=True unlinks it
ExitWith(files, name) == files \ {name}

\* the except clauses of lines 94-102 and the return of line 93
Returns(success, message) ==
    /\ result' = Return(success, message)
    /\ pc' = "report"

\* line 83: NamedTemporaryFile(suffix=..., delete=True) creates a file under a
\* name no file has, or raises OSError
CreateTemp ==
    /\ pc = "print"
    /\ \/ /\ \E name \in TempNames \ fs :
                /\ temp_file' = name
                /\ fs' = fs \cup {name}
          /\ effects' = Append(effects, "tempfile")
          /\ pc' = "write"
          /\ UNCHANGED result
       \/ /\ \E e \in CreateErrors : Returns(FALSE, e)
          /\ UNCHANGED << temp_file, fs, effects >>
    /\ UNCHANGED << config, handler, msg, outcome, replies, copies, img_size,
                    resized, lp >>

\* lines 84-85: write and flush
WriteTemp ==
    /\ pc = "write"
    /\ \/ /\ effects' = Append(effects, "write")
          /\ pc' = "spawn"
          /\ UNCHANGED << fs, result >>
       \/ /\ \E e \in WriteErrors : Returns(FALSE, e)
          /\ fs' = ExitWith(fs, temp_file)
          /\ effects' = Append(effects, "unlink")
    /\ UNCHANGED << config, handler, msg, outcome, replies, copies, img_size,
                    resized, temp_file, lp >>

\* lines 65-78 and 87: the arguments of the lp command
lp_command(printer_name, n, file) ==
    [status |-> "running", d |-> printer_name, n |-> n, file |-> file, code |-> 0,
     stdout |-> "", stderr |-> "", error |-> ""]

\* line 90, subprocess.run: the child is started, or starting it raises
Spawn ==
    /\ pc = "spawn"
    /\ \/ /\ lp' = lp_command(CUPS_PRINTER_NAME.text, copies, temp_file)
          /\ effects' = Append(effects, "lp")
          /\ pc' = "lp_running"
          /\ UNCHANGED << fs, result >>
       \/ /\ \E e \in LaunchErrors :
                /\ lp' = [lp_command(CUPS_PRINTER_NAME.text, copies, temp_file)
                             EXCEPT !.status = "launch_failed", !.error = e]
                /\ Returns(FALSE, e)
          /\ fs' = ExitWith(fs, temp_file)
          /\ effects' = Append(effects, "unlink")
    /\ UNCHANGED << config, handler, msg, outcome, replies, copies, img_size,
                    resized, temp_file >>

\* a variant that reports stdout for a failed command as well
Classify_AlwaysStdout(code, out, err) ==
    IF code = 0 THEN Return(TRUE, out) ELSE Return(FALSE, out)

\* lines 90-99: the child exits; check=True raises CalledProcessError on a
\* non-zero status.  Nothing bounds the wait: there is no timeout argument.
Classify(code, out, err) ==
    IF code = 0 THEN Return(TRUE, out) ELSE Return(FALSE, err)

LpExit ==
    /\ pc = "lp_running"
    /\ \E code \in ExitCodes, out \in Stdouts, err \in Stderrs :
          /\ lp' = [lp EXCEPT !.status = "exited", !.code = code,
                              !.stdout = out, !.stderr = err]
          /\ result' = Classify(code, out, err)
    /\ pc' = "report"
    /\ fs' = ExitWith(fs, temp_file)
    /\ effects' = Append(effects, "unlink")
    /\ UNCHANGED << config, handler, msg, outcome, replies, copies, img_size,
                    resized, temp_file >>

\* handle_image, lines 171-176
Report ==
    /\ pc = "report"
    /\ effects' = Append(effects, "reply")
    /\ IF result.success
       THEN Finish("dispatch-succeeded", Reply("sent", result.message))
       ELSE Finish("dispatch-failed", Reply("print_failed", result.message))
    /\ UNCHANGED << config, handler, msg, copies, img_size, resized, temp_file, fs,
                    lp, result >>

-----------------------------------------------------------------------------

Next ==
    \/ ReceiveCommand
    \/ ReceivePhoto
    \/ Invoke
    \/ start
    \/ Authorize
    \/ Validate
    \/ Download
    \/ Ack
    \/ Resize
    \/ CreateTemp
    \/ WriteTemp
    \/ Spawn
    \/ LpExit
    \/ Report

Spec == Init /\ [][Next]_vars

-----------------------------------------------------------------------------
\* parse_copies over built captions: a photo from an admitted sender has been
\* downloaded and handle_image is about to parse its caption.

Fragments == { <<"x">>, <<"X">>, <<"c", "o", "p", "i", "e", "s">>,
               <<"C", "o", "p", "i", "e", "s">>, <<"=">>, <<" ">>,
               <<"0">>, <<"3">> }

BuiltCaptions ==
    {NoCaption} \cup { Caption(Concat(f)) : f \in SeqsUpTo(Fragments, MaxFrags) }

InitParse ==
    /\ env = NoValue
    /\ ALLOWED_USER_IDS = LoadAllowedUserIds(env)
    /\ CUPS_PRINTER_NAME = Value(<<"l", "b", "l">>)
    /\ handler = "handle_image"
    /\ \E c \in BuiltCaptions :
          msg = [sender |-> 1, photo |-> TRUE, caption |-> c,
                 image |-> Image(800, 600, <<"R", "G", "B">>)]
    /\ pc = "ack"
    /\ outcome = "none"
    /\ replies = <<>>
    /\ effects = <<"authorize", "download">>
    /\ copies = 0
    /\ img_size = NoSize
    /\ resized = NoBuffer
    /\ temp_file = 0
    /\ fs = {}
    /\ lp = NoProcess
    /\ result = NoResult

NextParse ==
    \/ Ack
    \/ Resize
    \/ CreateTemp
    \/ WriteTemp
    \/ Spawn

SpecParse == InitParse /\ [][NextParse]_vars

-----------------------------------------------------------------------------
\* resize_image over sampled images: handle_image has acknowledged the photo
\* and is about to call resize_image.

Dims == {1, 2, 3, 1199, 1200, 1201, 1799, 1800, 1801, 2400, 3600}
            \cup { 397 * k : k \in 1..MaxDimK }

SampledImages ==
    {Undecodable} \cup { Image(w, h, m) : w \in Dims, h \in Dims, m \in Modes }

InitResize ==
    /\ env = NoValue
    /\ ALLOWED_USER_IDS = LoadAllowedUserIds(env)
    /\ CUPS_PRINTER_NAME = Value(<<"l", "b", "l">>)
    /\ handler = "handle_image"
    /\ \E i \in SampledImages :
          msg = [sender |-> 1, photo |-> TRUE, caption |-> NoCaption, image |-> i]
    /\ pc = "resize"
    /\ outcome = "none"
    /\ replies = << Reply("received", 1) >>
    /\ effects = <<"authorize", "download", "parse_copies", "reply">>
    /\ copies = 1
    /\ img_size = NoSize
    /\ resized = NoBuffer
    /\ temp_file = 0
    /\ fs = {}
    /\ lp = NoProcess
    /\ result = NoResult

NextResize == Resize

SpecResize == InitResize /\ [][NextResize]_vars

-----------------------------------------------------------------------------
\* Properties.

Count(seq, e) == Cardinality({ i \in DOMAIN seq : seq[i] = e })
Last(seq) == seq[Len(seq)]

\* the authorization check of the current run has been evaluated
PastAuth == pc \notin {"idle", "received", "authorizing"}

\* C1: a sender who is not on a non-empty allow-list gets the rejection reply
\* and nothing else happens in the run (no download, no copy-count parsing, no
\* resize_image, no temporary file, no lp); with an empty allow-list nobody is
\* denied; the check is the first step of every run of either handler.
C1_AuthorizationGate ==
    /\ effects # <<>> => effects[1] = "authorize"
    /\ PastAuth => effects # <<>>
    /\ (PastAuth /\ ALLOWED_USER_IDS # <<>>
          /\ msg.sender \notin Range(ALLOWED_USER_IDS))
       => /\ pc = "done"
          /\ outcome = "denied"
          /\ replies = << Reply("unauthorized", "") >>
          /\ effects = <<"authorize", "reply">>
    /\ (PastAuth /\ ALLOWED_USER_IDS = <<>>) => outcome # "denied"

C1_Witness ==
    /\ pc = "done"
    /\ handler = "handle_image"
    /\ msg.photo
    /\ outcome = "denied"
    /\ msg.sender \notin Range(ALLOWED_USER_IDS)

\* str.strip()
RECURSIVE Strip(_)
Strip(s) ==
    IF Len(s) = 0 THEN s
    ELSE IF IsSpace(Head(s)) THEN Strip(Tail(s))
    ELSE IF IsSpace(Last(s)) THEN Strip(SubSeq(s, 1, Len(s) - 1))
    ELSE s

\* the entries a configuration value names, blanks around them ignored
ConfiguredEntries(v) ==
    { Strip(f) : f \in { g \in Range(split(getenv(v, <<>>))) : Strip(g) # <<>> } }

ConfiguredIds(v) == { int(f) : f \in { g \in ConfiguredEntries(v) : isdigit(g) } }

\* C2: a configuration value that names at least one entry, be it padded with
\* blanks or not a number, loads a non-empty allow-list, and a sender who is
\* not one of the configured entries is denied.
C2_OpenOnlyWhenEmpty ==
    (PastAuth /\ ConfiguredEntries(env) # {})
    => /\ ALLOWED_USER_IDS # <<>>
       /\ msg.sender \notin ConfiguredIds(env) => outcome = "denied"

\* C3: no temporary file exists outside a call of print_image_cups, whatever
\* way the call ended, and lp runs only while the file of its call exists.
C3_TempFileScoped ==
    /\ pc \notin {"write", "spawn", "lp_running"} => fs = {}
    /\ pc \in {"write", "spawn", "lp_running"} => fs = {temp_file}
    /\ lp.status = "running" => (pc = "lp_running" /\ lp.file \in fs)

C3_Witness ==
    /\ pc = "report"
    /\ lp.status = "exited"
    /\ lp.code # 0
    /\ "tempfile" \in Range(effects)
    /\ fs = {}

\* C4: with no printer name configured, a photo from an admitted sender ends
\* with the configuration-error reply and the run downloads nothing, never
\* calls resize_image, creates no temporary file and spawns nothing.
C4_NoPrinterNoWork ==
    (handler = "handle_image" /\ msg.photo /\ PastAuth /\ outcome # "denied"
       /\ (~CUPS_PRINTER_NAME.set \/ CUPS_PRINTER_NAME.text = <<>>))
    => /\ Range(effects) \cap {"download", "resize_image", "tempfile", "lp"} = {}
       /\ fs = {}
       /\ lp = NoProcess
       /\ pc \in {"validating", "done"}
       /\ pc = "done" => (outcome = "rejected"
                          /\ replies = << Reply("not_configured", "") >>)

C4_Witness ==
    /\ pc = "done"
    /\ handler = "handle_image"
    /\ msg.photo
    /\ CUPS_PRINTER_NAME = Value(<<>>)
    /\ replies = << Reply("not_configured", "") >>

\* The occurrences of x<N> and copies=<N> in a lower-cased caption, as pairs
\* <<start of the occurrence, start of N>>; blanks may surround the "=".
AllBlank(s, from, to) == \A m \in from..to : IsSpace(s[m])

XOccurs(s, i, k) == s[i] = "x" /\ k = i + 1 /\ IsDigit(s[k])

CopiesOccurs(s, i, k) ==
    /\ HasAt(s, i, <<"c", "o", "p", "i", "e", "s">>)
    /\ IsDigit(s[k])
    /\ \E j \in (i + 6)..(k - 1) :
          s[j] = "=" /\ AllBlank(s, i + 6, j - 1) /\ AllBlank(s, j + 1, k - 1)

AtWordStart(s, i) == i = 1 \/ ~IsWordChar(s[i - 1])

Occurrences(s, wordStart) ==
    { o \in (1..Len(s)) \X (1..Len(s)) :
         \/ XOccurs(s, o[1], o[2])
         \/ CopiesOccurs(s, o[1], o[2]) /\ (wordStart => AtWordStart(s, o[1])) }

NumberAt(s, k) ==
    LET e == CHOOSE e \in k..Len(s) :
                 /\ \A m \in k..e : IsDigit(s[m])
                 /\ (e = Len(s) \/ ~IsDigit(s[e + 1]))
    IN  int(SubSeq(s, k, e))

ExpectedCopies(caption, wordStart) ==
    LET s == lower(caption.text)
        occ == Occurrences(s, wordStart)
    IN  IF ~caption.set \/ occ = {} THEN 1
        ELSE LET first == CHOOSE o \in occ : \A q \in occ : o[1] <= q[1]
             IN  Max(1, NumberAt(s, first[2]))

Parsed == "parse_copies" \in Range(effects)

\* C5 as stated: the copy count is max(1, N) for the first occurrence of x<N>
\* or copies=<N> anywhere in the caption, 1 without one, and lp gets it.
C5_FirstOccurrenceAnywhere ==
    Parsed => /\ copies >= 1
              /\ copies = ExpectedCopies(msg.caption, FALSE)
              /\ lp.status # "none" => (lp.n = copies /\ lp.n >= 1)

\* C5, amended: the copy count is max(1, N) for the first occurrence of x<N>
\* or of copies=<N> where "copies" starts a word (blanks may surround "="),
\* 1 when the caption is absent, empty or has no such occurrence; it is at
\* least 1 and it is the count the lp command is given.
C5_FirstOccurrenceAtWordStart ==
    Parsed => /\ copies >= 1
              /\ copies = ExpectedCopies(msg.caption, TRUE)
              /\ lp.status # "none" => (lp.n = copies /\ lp.n >= 1)

C5_Witness ==
    /\ lp.status = "running"
    /\ lp.n = 1
    /\ msg.caption = Caption(<<"x", "C", "o", "p", "i", "e", "s", "=", "3">>)

\* C6: exit status 0 gives (success, stdout) and the success reply with that
\* stdout; a non-zero status gives (failure, stderr), a failed launch
\* (failure, exception text), and the failure reply carries that text; the
\* outcome is reported once and at most one subprocess is spawned per message.
C6_OutcomeClassified ==
    /\ Count(effects, "lp") <= 1
    /\ (lp.status = "exited" /\ lp.code = 0)
       => /\ result = Return(TRUE, lp.stdout)
          /\ pc = "done" => Last(replies) = Reply("sent", lp.stdout)
    /\ (lp.status = "exited" /\ lp.code # 0)
       => /\ result = Return(FALSE, lp.stderr)
          /\ pc = "done" => Last(replies) = Reply("print_failed", lp.stderr)
    /\ lp.status = "launch_failed"
       => /\ result = Return(FALSE, lp.error)
          /\ pc = "done" => Last(replies) = Reply("print_failed", lp.error)
    /\ Cardinality({ i \in DOMAIN replies :
                        replies[i].kind \in {"sent", "print_failed"} })
         = (IF pc = "done" /\ result.returned THEN 1 ELSE 0)

C6_Witness ==
    /\ pc = "done"
    /\ lp.status = "exited"
    /\ lp.code # 0
    /\ lp.stdout # ""
    /\ lp.stderr # ""
    /\ outcome = "dispatch-failed"

Decoded == pc # "resize" /\ msg.image.decodable

\* one side of the output is the source's side scaled, within a pixel
SameAspect(W, H, w, h) ==
    \/ Abs(W * h - H * w) < h
    \/ Abs(H * w - W * h) < w

\* C7: the image resize_image works on is at most 1200 x 1800, keeps the
\* source's aspect ratio within one pixel, is never larger than the source and
\* keeps the source's size when that fits the box; resizing it again leaves
\* its size alone.
C7_FitsLabel ==
    Decoded =>
       LET W == img_size[1]
           H == img_size[2]
           w == msg.image.w
           h == msg.image.h
       IN  /\ 1 <= W /\ W <= 1200
           /\ 1 <= H /\ H <= 1800
           /\ W <= w /\ H <= h
           /\ SameAspect(W, H, w, h)
           /\ (w <= 1200 /\ h <= 1800) => (W = w /\ H = h)
           /\ thumbnail(W, H, LABEL_WIDTH_PX, LABEL_HEIGHT_PX) = { <<W, H>> }
           /\ resized.ok => resized.size = img_size

C7_Witness ==
    /\ Decoded
    /\ msg.image.w = 3600
    /\ msg.image.h = 397
    /\ img_size = <<1200, 132>>
    /\ resized.ok

\* C8: PNG exactly for images with an alpha channel or a palette, JPEG
\* otherwise, returned encoded with the lower-case tag of the format.
C8_FormatByAlphaOrPalette ==
    Decoded =>
       /\ resized.ok
       /\ resized.format =
            (IF HasAlpha(msg.image.mode) \/ IsPalette(msg.image.mode) THEN PNG ELSE JPEG)
       /\ resized.tag = (IF resized.format = PNG THEN <<"p", "n", "g">>
                                                  ELSE <<"j", "p", "e", "g">>)

\* The state of section 4.5 a run of handle_image is in.
State ==
    CASE pc = "idle" -> "idle"
      [] pc = "received" -> "received"
      [] pc = "authorizing" -> "authorizing"
      [] pc \in {"validating", "download", "ack"} -> "validating-input"
      [] pc = "resize" -> "normalizing"
      [] pc \in {"print", "write", "spawn", "lp_running", "report"} -> "dispatching"
      [] pc = "done" /\ outcome = "raised" -> "validating-input"
      [] OTHER -> outcome

Rank(st) ==
    CASE st = "received" -> 0
      [] st = "authorizing" -> 1
      [] st \in {"denied", "validating-input"} -> 2
      [] st \in {"rejected", "normalizing"} -> 3
      [] st \in {"normalize-failed", "dispatching"} -> 4
      [] st \in {"dispatch-failed", "dispatch-succeeded"} -> 5
      [] OTHER -> -1

InRun == handler = "handle_image" /\ handler' = "handle_image" /\ State' # "received"

\* C9 as stated: every transition except the one into received sends exactly
\* one reply, and the states are visited in order.
C9_EveryTransitionReplies ==
    [][(InRun /\ State' # State)
         => /\ Rank(State') = Rank(State) + 1
            /\ Len(replies') = Len(replies) + 1]_vars

SilentStates == {"authorizing", "validating-input", "dispatching"}

\* C9, amended: the states are visited in order, one step at a time and never
\* backwards; entering denied, rejected, normalizing, normalize-failed,
\* dispatch-failed or dispatch-succeeded sends exactly one reply, entering
\* authorizing, validating-input or dispatching sends none, and no reply is
\* sent without a transition.
C9_LinearWithReplies ==
    [][InRun
         => /\ State' # State => Rank(State') = Rank(State) + 1
            /\ \/ State' # State /\ State' \notin SilentStates
                  /\ Len(replies') = Len(replies) + 1
                  /\ SubSeq(replies', 1, Len(replies)) = replies
               \/ (State' = State \/ State' \in SilentStates)
                  /\ replies' = replies]_vars

C9_Witness ==
    /\ handler = "handle_image"
    /\ pc = "done"
    /\ outcome = "dispatch-succeeded"
    /\ Len(replies) = 2

TerminalStates ==
    {"denied", "rejected", "normalize-failed", "dispatch-failed", "dispatch-succeeded"}

FinalReply ==
    CASE outcome = "denied" -> {"unauthorized"}
      [] outcome = "rejected" -> {"send_image", "not_configured"}
      [] outcome = "normalize-failed" -> {"process_failed"}
      [] outcome = "dispatch-failed" -> {"print_failed"}
      [] outcome = "dispatch-succeeded" -> {"sent"}
      [] OTHER -> {}

\* C10: a run of handle_image that has ended is in a terminal state and has
\* sent that state's reply, also when the photo download raised.
C10_EndsInTerminalState ==
    (handler = "handle_image" /\ pc = "done")
    => /\ State \in TerminalStates
       /\ replies # <<>>
       /\ Last(replies).kind \in FinalReply

====
